---- MODULE Spec2Model ----
(***************************************************************************)
(* js-mediator: the registration / resolution engine of src/mediator.js   *)
(* (second IIFE, lines 217-449: register, connect, forEach, group).       *)
(*                                                                         *)
(* Every public operation is one atomic action: JavaScript is single       *)
(* threaded and every callback runs to completion inside the call that     *)
(* triggered it.  The nested calls the engine makes itself (a group        *)
(* continuation calling register, a forEach continuation subscribing and   *)
(* replaying) are part of the action, computed by mutually recursive       *)
(* operators over a record holding the engine's variables.                 *)
(***************************************************************************)
EXTENDS Naturals, Sequences, FiniteSets, TLC

VARIABLES
    Modules,              \* var Modules = {}: name -> stored value
    keys,                 \* own keys of Modules in insertion order (Object.keys)
    ModuleCallbackList,   \* var ModuleCallbackList = []
    ForEachCallbackList,  \* var ForEachCallbackList = []
    Connected,            \* var Connected = {}: the names n with Connected[n] truthy
    claimed,              \* the (implicit global) variable assigned by connect
    log,                  \* observation: every callback invocation and every store, in order
    hist,                 \* observation: the public calls made so far, with their outcome
    earlier               \* the earlier engine (first IIFE, lines 1-216), given the same
                          \* register calls, and the connect calls as couple calls

vars == <<Modules, keys, ModuleCallbackList, ForEachCallbackList, Connected,
          claimed, log, hist, earlier>>

----------------------------------------------------------------------------
(* Bounds of the model *)

\* number of public calls in one run
MaxOps == 5

\* nesting depth of the register calls made by forEach callbacks at which
\* the JavaScript stack is exhausted (RangeError)
MaxDepth == 3

----------------------------------------------------------------------------
(* Names and JavaScript values *)

\* The names used by the runs: Modules (uppercase initial), an Instance
\* (lowercase initial) and a name whose initial has no case.
Names == {"A", "B", "G", "i", "_g"}

\* A name argument that is not a string (the number 42), and the empty string
NotAString == "<42>"
EmptyName  == ""

\* typeof name
TypeOfName(name) == IF name = NotAString THEN "number" ELSE "string"

\* name[0] of the empty string: undefined
NoChar == "undefined"

\* name[0]
FirstChar(name) ==
    CASE name = EmptyName -> NoChar
      [] name = "A" -> "A"
      [] name = "B" -> "B"
      [] name = "G" -> "G"
      [] name = "i" -> "i"
      [] name = "_g" -> "_"

\* String.prototype.toLowerCase on the characters above
toLowerCase(c) ==
    CASE c = "A" -> "a"
      [] c = "B" -> "b"
      [] c = "G" -> "g"
      [] OTHER -> c

\* String.prototype.toUpperCase on the characters above
toUpperCase(c) ==
    CASE c = "i" -> "I"
      [] OTHER -> c

\* Registered payloads: two ordinary objects, the number 0 (defined but
\* falsy), null, the fresh {} a group continuation builds, and undefined.
Undefined == "undefined"
Zero      == "zero"
Null      == "null"
Container == "container"
Objects   == {"o1", "o2"}

\* JavaScript truthiness of a payload
TruthyObj(o) == o # Undefined /\ o # Zero /\ o # Null

\* typeof object
TypeOfObject(o) ==
    CASE o = Undefined -> "undefined"
      [] o = Zero -> "number"
      [] OTHER -> "object"

\* Values held in Modules and passed to callbacks, all tuples of strings:
\*   <<"undef">>            no property of that name (undefined)
\*   <<"obj", o>>           the payload o
\*   <<"arr", o1, ..., ok>> the array of an Instance name
\*   <<"str", n>>           the string n (the name argument of a forEach fn)
Undef    == <<"undef">>
Obj(o)   == <<"obj", o>>
Str(n)   == <<"str", n>>
IsArray(v) == v[1] = "arr"

\* !!v for a stored value
Truthy(v) == IF v[1] = "undef" THEN FALSE
             ELSE IF v[1] = "obj" THEN TruthyObj(v[2])
             ELSE TRUE

\* Arguments of forEach, by their typeof/Array.isArray shape
ArgFn      == [t |-> "function", s |-> "", a |-> <<>>]
ArgUndef   == [t |-> "undefined", s |-> "", a |-> <<>>]
ArgNull    == [t |-> "null", s |-> "", a |-> <<>>]
ArgStr(n)  == [t |-> "string", s |-> n, a |-> <<>>]
ArgArr(l)  == [t |-> "array", s |-> "", a |-> l]

\* Callbacks that call back into the engine: a function that calls
\* Mediator.register(n, o) on every invocation, and one that does so on its
\* first invocation only.  ArgFn is a function that does not touch the engine.
ArgFnReg(n, o)     == [t |-> "function", s |-> n, a |-> <<o, "always">>]
ArgFnRegOnce(n, o) == [t |-> "function", s |-> n, a |-> <<o, "once">>]

----------------------------------------------------------------------------
(* Array helpers *)

\* Array.prototype.indexOf, 1-based; 0 when absent
RECURSIVE IndexFrom(_, _, _)
IndexFrom(seq, x, k) ==
    IF k > Len(seq) THEN 0
    ELSE IF seq[k] = x THEN k
    ELSE IndexFrom(seq, x, k + 1)

indexOf(seq, x) == IndexFrom(seq, x, 1)

\* Array.prototype.splice(k, 1) at 1-based k; nothing happens past the end
splice(seq, k) ==
    IF k < 1 \/ k > Len(seq) THEN seq
    ELSE [j \in 1..(Len(seq) - 1) |-> IF j < k THEN seq[j] ELSE seq[j + 1]]

Range(seq) == {seq[k] : k \in 1..Len(seq)}

----------------------------------------------------------------------------
(* The engine, as operators on a record e of its variables.                *)
(* e.threw is "" while the call runs normally and the error's name once   *)
(* an exception propagates: every operator passes such a record through    *)
(* unchanged, which is the unwinding of the JavaScript stack.              *)

Engine0 ==
    [Modules |-> [n \in Names |-> Undef],
     keys |-> <<>>,
     ModuleCallbackList |-> <<>>,
     ForEachCallbackList |-> <<>>,
     Connected |-> {},
     claimed |-> <<"unset">>,
     log |-> <<>>,
     op |-> 0,
     depth |-> 0,
     threw |-> ""]

Throw(e, err) == [e EXCEPT !.threw = err]

\* one observed event
Event(ev, id, name, args, op) ==
    [ev |-> ev, id |-> id, name |-> name, args |-> args, op |-> op]

Observe(e, ev, id, name, args) ==
    [e EXCEPT !.log = Append(@, Event(ev, id, name, args, e.op))]

\* Mutant of getModules: an Instance array is replaced by its last element.
getModulesLast(e, names) ==
    [k \in 1..Len(names) |->
        LET v == e.Modules[names[k]]
        IN  IF v[1] = "arr" THEN <<"obj", v[Len(v)]>> ELSE v]

\* getModules(names)
getModules(e, names) == [k \in 1..Len(names) |-> e.Modules[names[k]]]

\* Mutant of isInstance: every name is stored as a Module.
isInstanceNever(name) == FALSE

\* var isInstance = name[0] === name[0].toLowerCase()
isInstance(name) == FirstChar(name) = toLowerCase(FirstChar(name))

\* Mutant of StoreInstance: unshift instead of push (the new instance goes
\* to the front of the array).
StoreInstanceUnshift(e, name, object) ==
    LET old == e.Modules[name]
        arr == IF Truthy(old) THEN old ELSE <<"arr">>
    IN  [e EXCEPT !.Modules[name] = <<"arr", object>> \o Tail(arr),
                  !.keys = IF indexOf(@, name) = 0 THEN Append(@, name) ELSE @]

\* if(!Modules[name]) Modules[name] = []; Modules[name].push(object)
StoreInstance(e, name, object) ==
    LET old == e.Modules[name]
        arr == IF Truthy(old) THEN old ELSE <<"arr">>
    IN  [e EXCEPT !.Modules[name] = Append(arr, object),
                  !.keys = IF indexOf(@, name) = 0 THEN Append(@, name) ELSE @]

\* Modules[name] = object
StoreModule(e, name, object) ==
    [e EXCEPT !.Modules[name] = Obj(object),
              !.keys = IF indexOf(@, name) = 0 THEN Append(@, name) ELSE @]

RECURSIVE MediatorRegister(_, _, _)

\* fn.apply(null, ...): what the caller's fn does when it is invoked.  A
\* nested register beyond MaxDepth exhausts the stack.
ApplyFn(e, sub) ==
    IF e.threw # "" \/ sub.does.a = <<>> THEN e
    ELSE IF sub.does.a[2] = "once"
            /\ Cardinality({k \in 1..Len(e.log) :
                               e.log[k].ev = "fn" /\ e.log[k].id = sub.fn}) > 1
    THEN e
    ELSE IF e.depth >= MaxDepth THEN Throw(e, "RangeError")
    ELSE LET r == MediatorRegister([e EXCEPT !.depth = @ + 1],
                                   sub.does.s, sub.does.a[1])
         IN  [r EXCEPT !.depth = e.depth]

\* Mutant of EnhanceForEachCallback: fn is never applied.
EnhanceForEachCallbackMuted(e, sub, module, name) ==
    Observe(e, "notify", sub.fn, name, <<module, Str(name)>>)

\* Mutant of EnhanceForEachCallback: the filter test is dropped.
EnhanceForEachCallbackUnfiltered(e, sub, module, name) ==
    Observe(Observe(e, "notify", sub.fn, name, <<module, Str(name)>>),
            "fn", sub.fn, name, <<module, Str(name)>> \o sub.modules)

\* Mutant of EnhanceForEachCallback: the resolved modules are passed in
\* reverse order.
EnhanceForEachCallbackReversed(e, sub, module, name) ==
    LET e0 == Observe(e, "notify", sub.fn, name, <<module, Str(name)>>)
    IN  IF (sub.filter.t = "boolean" /\ sub.filter.s = "false")
              \/ (sub.filter.t = "string" /\ sub.filter.s = name)
        THEN Observe(e0, "fn", sub.fn, name,
                     <<module, Str(name)>> \o
                     [j \in 1..Len(sub.modules) |->
                         sub.modules[Len(sub.modules) + 1 - j]])
        ELSE e0

\* function EnhanceForEachCallback(module, name): the Subscription; its
\* invocation is observed as "notify", that of fn as "fn"
EnhanceForEachCallback(e, sub, module, name) ==
    LET e0 == Observe(e, "notify", sub.fn, name, <<module, Str(name)>>)
    IN  IF (sub.filter.t = "boolean" /\ sub.filter.s = "false")
              \/ (sub.filter.t = "string" /\ sub.filter.s = name)
        THEN ApplyFn(Observe(e0, "fn", sub.fn, name,
                             <<module, Str(name)>> \o sub.modules), sub)
        ELSE e0

\* Mutant of Broadcast: the list is walked from its last Subscription to
\* its first.
RECURSIVE BroadcastBackwards(_, _, _, _, _)
BroadcastBackwards(e, object, name, k, len) ==
    IF e.threw # "" \/ k > len THEN e
    ELSE BroadcastBackwards(
             EnhanceForEachCallback(e, e.ForEachCallbackList[len + 1 - k],
                                    object, name),
             object, name, k + 1, len)

\* ForEachCallbackList.forEach(function(callback){ callback(object,name); })
RECURSIVE Broadcast(_, _, _, _, _)
Broadcast(e, object, name, k, len) ==
    IF e.threw # "" \/ k > len THEN e
    ELSE Broadcast(EnhanceForEachCallback(e, e.ForEachCallbackList[k], object, name),
                   object, name, k + 1, len)

\* Mutant of ReplayInstances: the length of the array is read again on every
\* round, so elements pushed during the walk are visited too.
RECURSIVE ReplayInstancesLive(_, _, _, _, _)
ReplayInstancesLive(e, sub, name, k, len) ==
    IF e.threw # "" \/ k > Len(e.Modules[name]) - 1 THEN e
    ELSE ReplayInstancesLive(
             EnhanceForEachCallback(e, sub, Obj(e.Modules[name][k + 1]), name),
             sub, name, k + 1, len)

\* Mutant of ReplayInstances: the array is walked from its last element to
\* its first.
RECURSIVE ReplayInstancesBackwards(_, _, _, _, _)
ReplayInstancesBackwards(e, sub, name, k, len) ==
    IF e.threw # "" \/ k > len THEN e
    ELSE ReplayInstancesBackwards(
             EnhanceForEachCallback(e, sub,
                                    Obj(e.Modules[name][len - k + 2]), name),
             sub, name, k + 1, len)

\* modules.forEach(function(module){ callback(module,name); }) on an Instance array
RECURSIVE ReplayInstances(_, _, _, _, _)
ReplayInstances(e, sub, name, k, len) ==
    IF e.threw # "" \/ k > len THEN e
    ELSE ReplayInstances(
             EnhanceForEachCallback(e, sub, Obj(e.Modules[name][k + 1]), name),
             sub, name, k + 1, len)

\* Object.keys(Modules).forEach(function(name){ ... })
RECURSIVE ReplayKeys(_, _, _, _)
ReplayKeys(e, sub, ks, k) ==
    IF e.threw # "" \/ k > Len(ks) THEN e
    ELSE LET name == ks[k]
             modules == e.Modules[name]
             e1 == IF ~IsArray(modules)
                   THEN EnhanceForEachCallback(e, sub, modules, name)
                   ELSE ReplayInstances(e, sub, name, 1, Len(modules) - 1)
         IN  ReplayKeys(e1, sub, ks, k + 1)

\* Mutant of Finished: the length test is dropped, so a connection resolves
\* on the first of its names to be registered.
FinishedOnFirst(waitFor) == TRUE

\* if(item.waitFor.length === 0): "Are we finished loading all modules?"
Finished(waitFor) == Len(waitFor) = 0

\* Mutant of IsWaitingFor: every entry is treated as waiting for the name.
IsWaitingForAny(moduleIndex) == TRUE

\* if(moduleIndex > -1): "is this callback waiting for current module?"
IsWaitingFor(moduleIndex) == moduleIndex > 0

\* Mutant of Subscribe: the new Subscription replaces the list.
SubscribeReplacing(list, sub) == <<sub>>

\* ForEachCallbackList.push(callback)
Subscribe(list, sub) == Append(list, sub)

RECURSIVE ResolveLoop(_, _, _)
RECURSIVE Invoke(_, _, _)

\* callback.apply(null, args) for the three kinds of function the engine
\* stores: a caller's connect callback, the continuation forEach passes to
\* connect, and MediatorGroupCallback.
Invoke(e, callback, args) ==
    LET e1 == Observe(e, "cont", callback.id, callback.name, args)
    IN  CASE callback.kind = "connect" -> e1
          [] callback.kind = "forEach" ->
                LET sub == [filter |-> callback.filter, fn |-> callback.id,
                            modules |-> args, does |-> callback.fn]
                    e2 == [e1 EXCEPT !.ForEachCallbackList = Subscribe(@, sub)]
                IN  ReplayKeys(e2, sub, e2.keys, 1)
          [] callback.kind = "group" ->
                LET module == IF TruthyObj(callback.ret) THEN callback.ret
                              ELSE Container
                IN  MediatorRegister(e1, callback.name, module)

\* the for loop of register over ModuleCallbackList, at (1-based) callbackIndex
ResolveLoop(e, name, callbackIndex) ==
    IF e.threw # "" \/ callbackIndex < 1 THEN e
    ELSE IF callbackIndex > Len(e.ModuleCallbackList)
    THEN Throw(e, "TypeError")     \* item is undefined: item.waitFor throws
    ELSE
      LET item == e.ModuleCallbackList[callbackIndex]
          moduleIndex == indexOf(item.waitFor, name)
      IN  IF ~IsWaitingFor(moduleIndex)
          THEN ResolveLoop(e, name, callbackIndex - 1)
          ELSE
            LET waitFor == splice(item.waitFor, moduleIndex)
                e1 == [e EXCEPT !.ModuleCallbackList[callbackIndex].waitFor = waitFor]
            IN  IF ~Finished(waitFor) THEN ResolveLoop(e1, name, callbackIndex - 1)
                ELSE
                  LET e2 == Invoke(e1, item.callback, getModules(e1, item.modules))
                      e3 == IF e2.threw # "" THEN e2
                            ELSE [e2 EXCEPT !.ModuleCallbackList =
                                                splice(@, callbackIndex)]
                  IN  ResolveLoop(e3, name, callbackIndex - 1)

\* Mutant of ObjectMissing: the test of the second argument is dropped.
ObjectNeverMissing(object) == FALSE

\* if(typeof object === 'undefined')
ObjectMissing(object) == object = Undefined

\* Mediator.register = function MediatorRegister(name,object)
MediatorRegister(e, name, object) ==
    IF e.threw # "" THEN e
    ELSE IF TypeOfName(name) # "string" THEN Throw(e, "NameNotAString")
    ELSE IF ObjectMissing(object) THEN Throw(e, "TwoArguments")
    ELSE IF FirstChar(name) = NoChar
    THEN Throw(e, "TypeError")     \* name[0] is undefined: name[0].toLowerCase throws
    ELSE IF isInstance(name)
    THEN LET e1 == Observe(StoreInstance(e, name, object), "reg", 0, name,
                           <<Obj(object)>>)
         IN  Broadcast(e1, Obj(object), name, 1, Len(e1.ForEachCallbackList))
    ELSE IF Truthy(e.Modules[name]) THEN Throw(e, "AlreadyExists")
    ELSE LET e1 == Observe(StoreModule(e, name, object), "reg", 0, name,
                           <<Obj(object)>>)
             e2 == ResolveLoop(e1, name, Len(e1.ModuleCallbackList))
         IN  Broadcast(e2, Obj(object), name, 1, Len(e2.ForEachCallbackList))

\* claimed = modules.filter(function(name){ var available = !!Connected[name];
\*   if(available) Connected[name] = true; return available; })
ClaimedOf(connected, modules) == SelectSeq(modules, LAMBDA n : n \in connected)
ConnectedAfter(connected, modules) ==
    connected \cup {n \in Range(modules) : n \in connected}

\* Mediator.connect = function MediatorConnect(modules,callback)
MediatorConnect(e, modules, callback) ==
    IF e.threw # "" THEN e
    ELSE
      LET cl == ClaimedOf(e.Connected, modules)
          e1 == [e EXCEPT !.claimed = cl,
                          !.Connected = ConnectedAfter(@, modules)]
      IN  IF Len(cl) > 0 THEN Throw(e1, "AlreadyCoupled")
          ELSE
            LET waitFor == SelectSeq(modules, LAMBDA n : ~Truthy(e1.Modules[n]))
            IN  IF Len(waitFor) = 0
                THEN Invoke(e1, callback, getModules(e1, modules))
                ELSE [e1 EXCEPT !.ModuleCallbackList =
                         Append(@, [waitFor |-> waitFor, modules |-> modules,
                                    callback |-> callback])]

\* Mutant of FnMissing: the test of the callback is dropped.
FnNeverMissing(fn) == FALSE

\* if(typeof fn !== 'function')
FnMissing(fn) == fn.t # "function"

\* Mediator.forEach = function MediatorForEach(filter,moduleNames,fn)
MediatorForEach(e, id, filter, moduleNames, fn) ==
    LET s1 == filter.t = "array" /\ moduleNames.t = "function"
        fn1 == IF s1 THEN moduleNames ELSE fn
        mn1 == IF s1 THEN filter ELSE moduleNames
        fi1 == IF s1 THEN ArgNull ELSE filter
        s2 == fi1.t = "function"
        fn2 == IF s2 THEN fi1 ELSE fn1
        mn2 == IF s2 THEN ArgArr(<<>>) ELSE mn1
        fi2 == IF s2 THEN ArgNull ELSE fi1
        s3 == mn2.t = "function"
        fn3 == IF s3 THEN mn2 ELSE fn2
        mn3 == IF s3 THEN ArgArr(<<>>) ELSE mn2
    IN  IF FnMissing(fn3) THEN Throw(e, "NotAFunction")
        ELSE MediatorConnect(e, mn3.a,
                 [id |-> id, kind |-> "forEach", filter |-> fi2,
                  name |-> "", ret |-> Undefined, fn |-> fn3])

\* Mediator.group = function MediatorGroup(name,moduleNames,callback)
MediatorGroup(e, id, name, moduleNames, ret) ==
    IF FirstChar(name) = NoChar
    THEN Throw(e, "TypeError")     \* name[0] is undefined: name[0].toUpperCase throws
    ELSE IF FirstChar(name) # toUpperCase(FirstChar(name))
    THEN Throw(e, "GroupName")
    ELSE MediatorConnect(e, moduleNames,
             [id |-> id, kind |-> "group", filter |-> ArgNull,
              name |-> name, ret |-> ret, fn |-> ArgUndef])

----------------------------------------------------------------------------
(* The earlier engine (first IIFE): register and couple.  Its callbacks are *)
(* the callers' couple callbacks, which do not call the engine.             *)

\* the for loop of the earlier register over ModuleCallbackList (lines 70-88)
RECURSIVE ResolveLoopOld(_, _, _)
ResolveLoopOld(e, name, callbackIndex) ==
    IF e.threw # "" \/ callbackIndex < 1 THEN e
    ELSE
      LET item == e.ModuleCallbackList[callbackIndex]
          moduleIndex == indexOf(item.waitFor, name)
      IN  IF ~(moduleIndex > 0) THEN ResolveLoopOld(e, name, callbackIndex - 1)
          ELSE
            LET waitFor == splice(item.waitFor, moduleIndex)
                e1 == [e EXCEPT !.ModuleCallbackList[callbackIndex].waitFor = waitFor]
            IN  IF Len(waitFor) # 0 THEN ResolveLoopOld(e1, name, callbackIndex - 1)
                ELSE
                  LET e2 == Observe(e1, "cont", item.callback.id,
                                    item.callback.name,
                                    getModules(e1, item.modules))
                      e3 == [e2 EXCEPT !.ModuleCallbackList =
                                           splice(@, callbackIndex)]
                  IN  ResolveLoopOld(e3, name, callbackIndex - 1)

\* the earlier Mediator.register = function MediatorRegister(name,object)
\* (lines 42-94); no forEach call reaches the earlier engine, so its
\* ForEachCallbackList is empty and the broadcast of lines 90-92 does nothing
MediatorRegisterOld(e, name, object) ==
    IF TypeOfName(name) # "string" THEN Throw(e, "NameNotAString")
    ELSE IF TypeOfObject(object) # "object" THEN Throw(e, "NotAnObject")
    ELSE IF FirstChar(name) = NoChar THEN Throw(e, "TypeError")
    ELSE IF FirstChar(name) = toLowerCase(FirstChar(name))
    THEN Observe(StoreInstance(e, name, object), "reg", 0, name,
                 <<Obj(object)>>)
    ELSE IF Truthy(e.Modules[name]) THEN Throw(e, "AlreadyExists")
    ELSE LET e1 == Observe(StoreModule(e, name, object), "reg", 0, name,
                           <<Obj(object)>>)
         IN  ResolveLoopOld(e1, name, Len(e1.ModuleCallbackList))

\* Mutant of MediatorCouple: the callback is never invoked at call time.
MediatorCoupleDeferring(e, modules, callback) ==
    [e EXCEPT !.ModuleCallbackList =
        Append(@, [waitFor |-> SelectSeq(modules,
                                   LAMBDA n : ~Truthy(e.Modules[n])),
                   modules |-> modules, callback |-> callback])]

\* Mediator.couple = function MediatorCouple(modules,callback) (lines 110-124)
MediatorCouple(e, modules, callback) ==
    LET waitFor == SelectSeq(modules, LAMBDA n : ~Truthy(e.Modules[n]))
    IN  IF Len(waitFor) = 0
        THEN Observe(e, "cont", callback.id, callback.name,
                     getModules(e, modules))
        ELSE [e EXCEPT !.ModuleCallbackList =
                 Append(@, [waitFor |-> waitFor, modules |-> modules,
                            callback |-> callback])]

\* a caller's connect(modules, cb)
ConnectCallback(id) ==
    [id |-> id, kind |-> "connect", filter |-> ArgNull, name |-> "",
     ret |-> Undefined, fn |-> ArgUndef]

----------------------------------------------------------------------------
(* The state machine *)

Init ==
    /\ Modules = Engine0.Modules
    /\ keys = Engine0.keys
    /\ ModuleCallbackList = Engine0.ModuleCallbackList
    /\ ForEachCallbackList = Engine0.ForEachCallbackList
    /\ Connected = Engine0.Connected
    /\ claimed = Engine0.claimed
    /\ log = <<>>
    /\ hist = <<>>
    /\ earlier = Engine0

\* the engine's variables at the start of the next public call
Now ==
    [Modules |-> Modules, keys |-> keys,
     ModuleCallbackList |-> ModuleCallbackList,
     ForEachCallbackList |-> ForEachCallbackList,
     Connected |-> Connected, claimed |-> claimed, log |-> log,
     op |-> Len(hist) + 1, depth |-> 0, threw |-> ""]

\* the earlier engine's variables at the start of its next call
OldNow == [earlier EXCEPT !.op = Len(hist) + 1, !.threw = ""]

\* the variables after a public call that ended in e (normally or by a
\* throw), the earlier engine having ended in o
Becomes(e, call, o) ==
    /\ earlier' = o
    /\ Modules' = e.Modules
    /\ keys' = e.keys
    /\ ModuleCallbackList' = e.ModuleCallbackList
    /\ ForEachCallbackList' = e.ForEachCallbackList
    /\ Connected' = e.Connected
    /\ claimed' = e.claimed
    /\ log' = e.log
    /\ hist' = Append(hist,
                 [call EXCEPT !.threw = e.threw,
                              !.changed =
                                  <<e.Modules, e.keys, e.ModuleCallbackList,
                                    e.ForEachCallbackList, e.Connected>>
                                  # <<Modules, keys, ModuleCallbackList,
                                       ForEachCallbackList, Connected>>])

Call(op, name, names, obj, filter) ==
    [op |-> op, name |-> name, names |-> names, obj |-> obj, filter |-> filter,
     args |-> <<>>, threw |-> "", changed |-> FALSE]

\* Mediator.register(name, object)
Register(name, object) ==
    /\ Len(hist) < MaxOps
    /\ Becomes(MediatorRegister(Now, name, object),
               Call("register", name, <<>>, object, ArgNull),
               MediatorRegisterOld(OldNow, name, object))

\* Mediator.connect(modules, cb); cb is identified by the call's index
Connect(modules) ==
    /\ Len(hist) < MaxOps
    /\ Becomes(MediatorConnect(Now, modules, ConnectCallback(Len(hist) + 1)),
               Call("connect", "", modules, Undefined, ArgNull),
               MediatorCouple(OldNow, modules, ConnectCallback(Len(hist) + 1)))

\* Mediator.forEach(filter, moduleNames, fn) in one of its argument shapes
ForEach(filter, moduleNames, fn) ==
    /\ Len(hist) < MaxOps
    /\ Becomes(MediatorForEach(Now, Len(hist) + 1, filter, moduleNames, fn),
               [Call("forEach", "",
                     IF filter.t = "array" /\ moduleNames.t = "function"
                     THEN filter.a
                     ELSE IF "function" \in {filter.t, moduleNames.t}
                     THEN <<>>
                     ELSE moduleNames.a,
                     Undefined,
                     IF filter.t = "string" THEN filter ELSE ArgNull)
                   EXCEPT !.args = <<filter, moduleNames, fn>>],
               earlier)

\* Mediator.group(name, moduleNames, callback); callback returns ret
Group(name, moduleNames, ret) ==
    /\ Len(hist) < MaxOps
    /\ Becomes(MediatorGroup(Now, Len(hist) + 1, name, moduleNames, ret),
               Call("group", name, moduleNames, ret, ArgNull),
               earlier)

\* Inputs of the general specification: every operation, every forEach
\* shape, truthy and falsy payloads.
Next ==
    \/ \E r \in {<<"A", "o1">>, <<"A", Zero>>, <<"B", "o1">>,
                  <<"i", "o1">>, <<"i", "o2">>} : Register(r[1], r[2])
    \/ \E l \in {<<"A", "B">>, <<"G">>} : Connect(l)
    \/ Group("G", <<"A">>, Undefined)
    \/ ForEach(ArgFn, ArgUndef, ArgUndef)
    \/ ForEach(ArgStr("i"), ArgArr(<<"A">>), ArgFn)

Spec == Init /\ [][Next]_vars

\* Cascades: a group whose registration resolves other pending connections
\* while register is still scanning the list.
NextCascade ==
    \/ \E n \in {"A", "B"} : Register(n, "o1")
    \/ \E l \in {<<"G">>, <<"B">>} : Connect(l)
    \/ Group("G", <<"A">>, Undefined)
    \/ ForEach(ArgStr("G"), ArgFn, ArgUndef)
    \/ ForEach(ArgStr("B"), ArgArr(<<"B">>), ArgFn)

SpecCascade == Init /\ [][NextCascade]_vars

\* Subscriptions: the four argument shapes of forEach over Module and
\* Instance registrations.
NextForEach ==
    \/ \E r \in {<<"A", "o1">>, <<"i", "o1">>, <<"i", "o2">>} :
          Register(r[1], r[2])
    \/ ForEach(ArgFn, ArgUndef, ArgUndef)
    \/ ForEach(ArgArr(<<"A">>), ArgFn, ArgUndef)
    \/ ForEach(ArgStr("i"), ArgFn, ArgUndef)
    \/ ForEach(ArgStr("A"), ArgArr(<<"A">>), ArgFn)

SpecForEach == Init /\ [][NextForEach]_vars

\* Subscriptions that wait for two Modules, registered in either order.
NextDeps ==
    \/ \E r \in {<<"A", "o1">>, <<"B", "o2">>, <<"i", "o1">>, <<"i", "o2">>} :
          Register(r[1], r[2])
    \/ ForEach(ArgStr("i"), ArgArr(<<"B", "A">>), ArgFn)
    \/ ForEach(ArgStr("A"), ArgArr(<<"A">>), ArgFn)
    \/ ForEach(ArgArr(<<"A", "B">>), ArgFn, ArgUndef)

SpecDeps == Init /\ [][NextDeps]_vars

\* Groups: a group of two members, its callback returning nothing, an
\* object or a falsy value, and connections waiting for the group.
NextGroup ==
    \/ \E r \in {<<"A", "o1">>, <<"B", "o2">>, <<"B", Zero>>} :
          Register(r[1], r[2])
    \/ \E l \in {<<"G">>, <<"G", "B">>} : Connect(l)
    \/ \E ret \in {Undefined, "o1", Zero} : Group("G", <<"B", "A">>, ret)

SpecGroup == Init /\ [][NextGroup]_vars

\* Argument shapes of forEach: the four valid ones and calls in which no
\* argument, or only a misplaced one, is a function.
NextShapes ==
    \/ \E r \in {<<"A", "o1">>, <<"i", "o1">>} : Register(r[1], r[2])
    \/ \E a \in {<<ArgFn, ArgUndef, ArgUndef>>,
                  <<ArgStr("i"), ArgFn, ArgUndef>>,
                  <<ArgArr(<<"A">>), ArgFn, ArgUndef>>,
                  <<ArgStr("i"), ArgArr(<<"A">>), ArgFn>>,
                  <<ArgUndef, ArgUndef, ArgUndef>>,
                  <<ArgStr("i"), ArgArr(<<"A">>), ArgUndef>>,
                  <<ArgArr(<<"A">>), ArgStr("i"), ArgUndef>>} :
          ForEach(a[1], a[2], a[3])

SpecShapes == Init /\ [][NextShapes]_vars

\* Instance names among the requested names of connect, group and forEach.
NextInstance ==
    \/ \E r \in {<<"A", "o1">>, <<"i", "o1">>, <<"i", "o2">>, <<"i", Zero>>} :
          Register(r[1], r[2])
    \/ \E l \in {<<"i">>, <<"A", "i">>} : Connect(l)
    \/ Group("G", <<"i", "A">>, Undefined)
    \/ ForEach(ArgStr("A"), ArgArr(<<"i">>), ArgFn)

SpecInstance == Init /\ [][NextInstance]_vars

\* Requests that name the same Module more than once.
NextRepeat ==
    \/ \E r \in {<<"A", "o1">>, <<"B", "o2">>} : Register(r[1], r[2])
    \/ \E l \in {<<"A", "A">>, <<"A", "B", "A">>, <<"B", "A">>} : Connect(l)

SpecRepeat == Init /\ [][NextRepeat]_vars

\* Re-entrant callbacks: Subscriptions whose fn registers an instance under
\* the name the Subscription matches, always or on its first invocation.
NextReentrant ==
    \/ \E o \in {"o1", "o2"} : Register("i", o)
    \/ \E fn \in {ArgFn, ArgFnReg("i", "o2"), ArgFnRegOnce("i", "o2")} :
          ForEach(ArgStr("i"), fn, ArgUndef)

SpecReentrant == Init /\ [][NextReentrant]_vars

\* The two engines side by side: register and connect / couple calls with
\* object, null and number payloads, no name requested twice.
NextCouple ==
    \/ \E r \in {<<"A", "o1">>, <<"A", Null>>, <<"A", Zero>>, <<"B", "o2">>,
                  <<"i", "o1">>} : Register(r[1], r[2])
    \/ \E l \in {<<"A">>, <<"B", "i">>, <<"G">>} : Connect(l)

SpecCouple == Init /\ [][NextCouple]_vars

\* Misuse: invalid arguments of register, group and forEach, and a group
\* whose name is already taken, among valid calls.
NextErrors ==
    \/ \E r \in {<<"A", "o1">>, <<"A", Undefined>>, <<NotAString, "o1">>,
                  <<EmptyName, "o1">>} : Register(r[1], r[2])
    \/ Connect(<<"G">>)
    \/ \E n \in {"G", "i", "_g"} : Group(n, <<"A">>, Undefined)
    \/ ForEach(ArgStr("A"), ArgFn, ArgUndef)
    \/ ForEach(ArgStr("A"), ArgUndef, ArgUndef)

SpecErrors == Init /\ [][NextErrors]_vars

----------------------------------------------------------------------------
(* Reading the observations *)

Calls == 1..Len(hist)
Events == 1..Len(log)

\* the calls that go through connect
Coupling(c) == hist[c].op \in {"connect", "forEach", "group"}

\* a Module name: register stores it as a singleton
IsModuleName(n) == ~isInstance(n)

\* the stores of name n, as indices of the log, and those made before call c
Stores(n) == {k \in Events : log[k].ev = "reg" /\ log[k].name = n}
StoredBefore(n, c) == \E k \in Stores(n) : log[k].op < c

\* the registry value of name n after the first k events of the log
RECURSIVE ValueAt(_, _)
ValueAt(n, k) ==
    IF k = 0 THEN Undef
    ELSE LET prev == ValueAt(n, k - 1)
         IN  IF log[k].ev = "reg" /\ log[k].name = n
             THEN IF isInstance(n)
                  THEN Append(IF prev = Undef THEN <<"arr">> ELSE prev,
                              log[k].args[1][2])
                  ELSE log[k].args[1]
             ELSE prev

\* the registry values of a list of names after the first k events
ValuesAt(names, k) == [j \in 1..Len(names) |-> ValueAt(names[j], k)]

\* the invocations of the callback that call c handed to connect
Conts(c) == {k \in Events : log[k].ev = "cont" /\ log[k].id = c}

\* the entries of the Pending list that belong to call c
Pending(c) == {k \in 1..Len(ModuleCallbackList) :
                  ModuleCallbackList[k].callback.id = c}

----------------------------------------------------------------------------
(* Claims *)

\* C1: once group(G, members, fn) has been called, every later connect whose
\* names include a member throws the 'already coupled' error and never
\* invokes its callback, while a later connect(['G'], cb) does not throw and,
\* once G is registered, has delivered G's registered value to cb.
C1_GroupEncapsulation ==
    \A g \in Calls : \A c \in Calls :
        (g < c /\ hist[g].op = "group" /\ hist[g].threw = ""
               /\ hist[c].op = "connect")
        => /\ (Range(hist[c].names) \cap Range(hist[g].names) # {})
                => (hist[c].threw = "AlreadyCoupled" /\ Conts(c) = {})
           /\ (hist[c].names = <<hist[g].name>>)
                => /\ hist[c].threw = ""
                   /\ Stores(hist[g].name) # {}
                        => \E k \in Conts(c) :
                              log[k].args = ValuesAt(hist[c].names, k - 1)

\* C2: connect marks every requested name as Claimed at call time and a
\* Claimed name stays Claimed, so the requested-name lists of the calls that
\* returned without throwing are pairwise disjoint.
C2_ClaimExclusivity ==
    /\ \A c \in Calls :
          (Coupling(c) /\ hist[c].threw = "")
          => Range(hist[c].names) \subseteq Connected
    /\ \A c \in Calls : \A d \in Calls :
          (c < d /\ Coupling(c) /\ Coupling(d)
                 /\ hist[c].threw = "" /\ hist[d].threw = "")
          => Range(hist[c].names) \cap Range(hist[d].names) = {}

\* C3: a connect on Module names of which at least one is not yet registered
\* does not invoke cb during the call; once every requested name has been
\* registered, cb has been invoked exactly once, with the registered objects
\* in the requested order.
C3_DeferredConnect ==
    \A c \in Calls :
        (/\ hist[c].op = "connect"
         /\ hist[c].threw = ""
         /\ \A n \in Range(hist[c].names) : IsModuleName(n)
         /\ \E n \in Range(hist[c].names) : ~StoredBefore(n, c))
        => /\ \A k \in Conts(c) : log[k].op # c
           /\ (\A n \in Range(hist[c].names) : Stores(n) # {})
                => /\ Cardinality(Conts(c)) = 1
                   /\ \A k \in Conts(c) :
                         log[k].args = ValuesAt(hist[c].names, k - 1)

\* C4: when every requested name already has a registry entry, connect
\* invokes cb exactly once before it returns, argument j being the registry
\* value of names[j], and adds no Pending Connection.
C4_ImmediateConnect ==
    \A c \in Calls :
        (/\ hist[c].op = "connect"
         /\ hist[c].threw = ""
         /\ \A n \in Range(hist[c].names) : StoredBefore(n, c))
        => /\ Cardinality(Conts(c)) = 1
           /\ \A k \in Conts(c) :
                 /\ log[k].op = c
                 /\ log[k].args = ValuesAt(hist[c].names, k - 1)
           /\ Pending(c) = {}

\* C5: no continuation of a connect, group or forEach call, and no forEach
\* fn, has been invoked at a moment when some name of the call's requested
\* list had no registry entry.
C5_NoPrematureCoupling ==
    \A k \in Events :
        log[k].ev \in {"cont", "fn"}
        => \A n \in Range(hist[log[k].id].names) :
               \E s \in Stores(n) : s < k

\* C5 witness: a connect on two names deferred, and its callback ran in the
\* later register call that supplied the last of them.
C5_Witness ==
    \E c \in Calls : \E k \in Conts(c) :
        /\ hist[c].op = "connect"
        /\ Len(hist[c].names) = 2
        /\ log[k].op > c

\* C6: for a Module name M, a second register(M, o2) throws, and a later
\* connect(['M'], cb) delivers the object of the first registration.
C6_DuplicateModule ==
    \A r \in Calls : \A q \in Calls :
        (/\ r < q
         /\ hist[r].op = "register" /\ hist[q].op = "register"
         /\ hist[r].name = hist[q].name
         /\ IsModuleName(hist[r].name)
         /\ \E s \in Stores(hist[r].name) : log[s].op = r)
        => /\ hist[q].threw = "AlreadyExists"
           /\ \A c \in Calls :
                 (q < c /\ hist[c].op = "connect"
                        /\ hist[c].names = <<hist[r].name>>)
                 => \E k \in Conts(c) : log[k].args = <<Obj(hist[r].obj)>>

\* C7: once a Module name has a registry entry, whatever accepted object it
\* was stored from, the stored object is never replaced or removed: the
\* entry is the object of the name's first store.
C7_ModuleWriteOnce ==
    \A n \in Names :
        (IsModuleName(n) /\ Stores(n) # {})
        => \E s \in Stores(n) :
              /\ \A s2 \in Stores(n) : s <= s2
              /\ Modules[n] = log[s].args[1]

\* the objects of the register(n, o) calls among the first k public calls
\* that returned without throwing, in call order
RECURSIVE RegisteredObjects(_, _)
RegisteredObjects(n, k) ==
    IF k = 0 THEN <<>>
    ELSE LET rest == RegisteredObjects(n, k - 1)
         IN  IF hist[k].op = "register" /\ hist[k].name = n /\ hist[k].threw = ""
             THEN Append(rest, hist[k].obj)
             ELSE rest

\* C8: for every Instance name i, after k successful register(i, o_1..o_k)
\* calls the registry sequence of i is exactly <<o_1, ..., o_k>> in call
\* order (and there is no entry while k = 0): nothing is removed or reordered.
C8_InstanceAppendOnly ==
    \A n \in Names :
        isInstance(n)
        => LET objs == RegisteredObjects(n, Len(hist))
           IN  Modules[n] = IF objs = <<>> THEN Undef ELSE <<"arr">> \o objs

\* C8 witness: two different objects were registered under Instance name i,
\* the second after a forEach call, and both are stored in call order.
C8_Witness ==
    /\ Len(Modules["i"]) = 3
    /\ Modules["i"][2] # Modules["i"][3]
    /\ \E c \in Calls : \E r \in Calls :
          /\ c < r
          /\ hist[c].op = "forEach"
          /\ hist[r].op = "register" /\ hist[r].name = "i"

\* does the subscription of forEach call c match entries named n
Matching(c, n) == hist[c].filter.t # "string" \/ hist[c].filter.s = n

\* the invocations of fn of forEach call c with (object v, name n)
Deliveries(c, n, v) ==
    {f \in Events : /\ log[f].ev = "fn" /\ log[f].id = c
                    /\ log[f].name = n /\ log[f].args[1] = v}

\* C9: a Subscription created by forEach, in any of the four argument
\* shapes, has received every matching registration exactly once (by replay
\* or by broadcast) and nothing else: for every name and object, fn was
\* invoked as often as that object was stored under that name if the
\* subscription matches the name, and never otherwise.
C9_ExactlyOnceDelivery ==
    \A c \in Calls :
        (hist[c].op = "forEach" /\ Conts(c) # {})
        => \A n \in Names : \A o \in Objects \cup {Zero, Container} :
              Cardinality(Deliveries(c, n, Obj(o))) =
                  IF Matching(c, n)
                  THEN Cardinality({s \in Stores(n) : log[s].args[1] = Obj(o)})
                  ELSE 0

\* C10: a forEach subscription that becomes active after N registrations has
\* invoked fn for each of the N existing matching entries, and did so before
\* any registration made afterwards (hence before delivering one).
C10_ReplayBeforeFuture ==
    \A c \in Calls : \A a \in Conts(c) :
        hist[c].op = "forEach"
        => \A n \in Names : \A s \in Stores(n) :
              (s < a /\ Matching(c, n))
              => \E f \in Deliveries(c, n, log[s].args[1]) :
                    /\ a < f
                    /\ \A m \in Names : \A s2 \in Stores(m) : a < s2 => f < s2

\* the invocations of fn of forEach call c
FnEvents(c) == {f \in Events : log[f].ev = "fn" /\ log[f].id = c}

\* the position of x in the set S of log indices, in log order
Rank(S, x) == Cardinality({y \in S : y <= x})

\* C11: for an Instance name i, forEach('i', fn) invokes fn once per element
\* registered so far, in registration order, with arguments (element, 'i'),
\* before it returns; every later register('i', x) invokes fn(x, 'i') exactly
\* once, inside that register call.  So the j-th invocation of fn is for the
\* j-th store under i, and there are as many invocations as stores.
C11_InstanceForEach ==
    \A c \in Calls :
        (/\ hist[c].op = "forEach" /\ hist[c].threw = ""
         /\ hist[c].filter.t = "string" /\ isInstance(hist[c].filter.s)
         /\ hist[c].names = <<>>)
        => LET i == hist[c].filter.s
               F == FnEvents(c)
               S == Stores(i)
           IN  /\ Cardinality(F) = Cardinality(S)
               /\ \A f \in F : \E s \in S :
                     /\ Rank(F, f) = Rank(S, s)
                     /\ log[f].args = <<log[s].args[1], Str(i)>>
                     /\ log[f].op = IF log[s].op < c THEN c ELSE log[s].op

\* C11 witness: forEach('i', fn) was called after two different objects were
\* registered under i, another was registered afterwards, and fn has run
\* three times.
C11_Witness ==
    \E c \in Calls :
        /\ hist[c].op = "forEach" /\ hist[c].filter = ArgStr("i")
        /\ hist[c].names = <<>>
        /\ Cardinality({s \in Stores("i") : log[s].op < c}) = 2
        /\ Cardinality({s \in Stores("i") : log[s].op > c}) = 1
        /\ Modules["i"][2] # Modules["i"][3]
        /\ Cardinality(FnEvents(c)) = 3

\* C12: forEach(fn) and forEach(moduleNames, fn) set no filter: once the
\* subscription is active, fn has been invoked for every registered Module
\* and every registered Instance element, whatever its name.
C12_UnfilteredForEach ==
    \A c \in Calls :
        (/\ hist[c].op = "forEach" /\ hist[c].threw = ""
         /\ hist[c].filter.t # "string"
         /\ Conts(c) # {})
        => \A n \in Names : \A s \in Stores(n) :
               Deliveries(c, n, log[s].args[1]) # {}

\* C13: for forEach(filterName, fn) and forEach(filterName, moduleNames, fn),
\* fn is never invoked with a name other than filterName, in the replay and
\* for later registrations alike.
C13_FilterExclusion ==
    \A f \in Events :
        (log[f].ev = "fn" /\ hist[log[f].id].filter.t = "string")
        => /\ log[f].name = hist[log[f].id].filter.s
           /\ log[f].args[2] = Str(hist[log[f].id].filter.s)

\* C13 witness: a filtered subscription is active and has been invoked, while
\* entries of another name existed before it became active and were added
\* after it.
C13_Witness ==
    \E c \in Calls : \E a \in Conts(c) :
        /\ hist[c].op = "forEach" /\ hist[c].filter.t = "string"
        /\ FnEvents(c) # {}
        /\ \E n \in Names : \E s \in Stores(n) :
              n # hist[c].filter.s /\ s < a
        /\ \E n \in Names : \E s \in Stores(n) :
              n # hist[c].filter.s /\ s > a

\* the public call in which name n was first stored
FirstStoreOp(n) ==
    CHOOSE o \in {log[s].op : s \in Stores(n)} :
        \A s \in Stores(n) : o <= log[s].op

\* the public call that supplied the last of the names (all of them stored)
LastSupplyOp(names) ==
    CHOOSE o \in {FirstStoreOp(n) : n \in Range(names)} :
        \A n \in Range(names) : FirstStoreOp(n) <= o

\* the subscription of forEach call c became active, and its replay was
\* completed, inside public call o
ReplayedIn(c, o) ==
    \E a \in Conts(c) :
        /\ log[a].op = o
        /\ \A n \in Names : \A s \in Stores(n) :
              (s < a /\ hist[c].filter.t = "string" /\ hist[c].filter.s = n)
              => \E f \in Deliveries(c, n, log[s].args[1]) :
                    a < f /\ log[f].op = o

\* C14: forEach(..., moduleNames, fn) never invokes fn while a name of
\* moduleNames is unregistered; if the names are all present at call time the
\* replay completes before forEach returns, and otherwise it completes inside
\* the register call that supplies the last missing name.
C14_ForEachDependencyWait ==
    \A c \in Calls :
        (hist[c].op = "forEach" /\ hist[c].threw = "" /\ hist[c].names # <<>>)
        => /\ \A f \in FnEvents(c) : \A n \in Range(hist[c].names) :
                 \E s \in Stores(n) : s < f
           /\ (\A n \in Range(hist[c].names) : StoredBefore(n, c))
                 => ReplayedIn(c, c)
           /\ (/\ \E n \in Range(hist[c].names) : ~StoredBefore(n, c)
               /\ \A n \in Range(hist[c].names) : Stores(n) # {})
                 => ReplayedIn(c, LastSupplyOp(hist[c].names))

\* C15: every invocation made for forEach(filter, moduleNames, fn) has the
\* form fn(object, name, m_1, ..., m_n): object is an object registered under
\* name, and m_j is the Module registered for moduleNames[j] when the
\* subscription became active, in the order of moduleNames.
C15_ForEachArguments ==
    \A f \in Events :
        log[f].ev = "fn"
        => LET c == log[f].id
           IN  /\ Len(log[f].args) = 2 + Len(hist[c].names)
               /\ \E s \in Stores(log[f].name) :
                     s < f /\ log[f].args[1] = log[s].args[1]
               /\ log[f].args[2] = Str(log[f].name)
               /\ \E a \in Conts(c) :
                     /\ a < f
                     /\ \A j \in 1..Len(hist[c].names) :
                           /\ log[f].args[2 + j] = ValueAt(hist[c].names[j], a - 1)
                           /\ log[f].args[2 + j] # Undef

\* C15 witness: fn of forEach('i', ['B','A'], fn) was invoked with two
\* different Modules, A having been registered before B.
C15_Witness ==
    \E f \in Events :
        /\ log[f].ev = "fn"
        /\ hist[log[f].id].names = <<"B", "A">>
        /\ log[f].args[3] # log[f].args[4]
        /\ FirstStoreOp("A") < FirstStoreOp("B")

\* the value group call g registers: the callback's return value if truthy,
\* otherwise the container
GroupResult(g) ==
    Obj(IF hist[g].obj \in Objects THEN hist[g].obj ELSE Container)

\* C16: when the members of group(name, memberNames, callback) are all
\* registered, callback has been invoked exactly once, with the members as
\* arguments in memberNames order, and name is a registered Module whose
\* value is the callback's return value if truthy, otherwise the container.
C16_GroupResult ==
    \A g \in Calls :
        (/\ hist[g].op = "group" /\ hist[g].threw = ""
         /\ \A n \in Range(hist[g].names) : Stores(n) # {})
        => /\ Cardinality(Conts(g)) = 1
           /\ \A k \in Conts(g) : log[k].args = ValuesAt(hist[g].names, k - 1)
           /\ Modules[hist[g].name] = GroupResult(g)

\* C17: if group(G, members, f) and a connect whose names include G are both
\* pending, the register call that supplies the last missing member stores G
\* and, if the connect's other names were registered before, invokes its
\* callback with the registry values (G's among them) inside that call.
C17_GroupCascade ==
    \A g \in Calls : \A c \in Calls :
        (/\ hist[g].op = "group" /\ hist[g].threw = ""
         /\ hist[c].op = "connect" /\ hist[c].threw = ""
         /\ hist[g].name \in Range(hist[c].names)
         /\ \A n \in Range(hist[g].names) : Stores(n) # {}
         /\ LastSupplyOp(hist[g].names) > g
         /\ LastSupplyOp(hist[g].names) > c
         /\ ~ \E s \in Stores(hist[g].name) :
                 log[s].op < LastSupplyOp(hist[g].names))
        => LET r == LastSupplyOp(hist[g].names)
           IN  /\ \E s \in Stores(hist[g].name) : log[s].op = r
               /\ (\A n \in Range(hist[c].names) \ {hist[g].name} :
                       StoredBefore(n, r))
                     => \E k \in Conts(c) :
                           /\ log[k].op = r
                           /\ log[k].args = ValuesAt(hist[c].names, k - 1)

\* the first characters of the names above that are uppercase letters
UpperCaseLetters == {"A", "B", "G"}

\* the events call c caused: registrations, continuations, fn invocations
EventsOf(c) == {k \in Events : log[k].op = c}

\* C18: group(name, memberNames, callback) throws when the first character
\* of name is not uppercase, and then changes no engine state (claims no
\* name, adds no Pending Connection, registers nothing) and never invokes
\* callback.
C18_GroupNameValidation ==
    \A g \in Calls :
        (hist[g].op = "group"
         /\ FirstChar(hist[g].name) \notin UpperCaseLetters)
        => /\ hist[g].threw # ""
           /\ ~hist[g].changed
           /\ EventsOf(g) = {}

\* C19: whenever a call to register, connect, forEach or group throws, from
\* its own validation or from a continuation it invoked, the Registry, the
\* Pending list, the Claimed set and the Broadcast list are exactly as they
\* were before the call.
C19_AllOrNothing ==
    \A c \in Calls : hist[c].threw # "" => ~hist[c].changed

\* register calls whose name is not a non-empty string or whose object is
\* undefined
InvalidRegister(r) ==
    /\ hist[r].op = "register"
    /\ \/ TypeOfName(hist[r].name) # "string"
       \/ hist[r].name = EmptyName
       \/ hist[r].obj = Undefined

\* C20: register(name, object) throws, stores nothing, resolves no Pending
\* Connection and notifies no Subscription when name is not a non-empty
\* string or when object is undefined.
C20_RegisterValidation ==
    \A r \in Calls :
        InvalidRegister(r)
        => /\ hist[r].threw # ""
           /\ ~hist[r].changed
           /\ EventsOf(r) = {}

\* a group is pending on A and a subscription to A is active when
\* register('A', undefined), register(42, o) and register('', o) are called
C20_Witness ==
    /\ Len(hist) = 5
    /\ hist[1].op = "group" /\ hist[1].names = <<"A">> /\ Conts(1) = {}
    /\ hist[2].op = "forEach" /\ hist[2].threw = ""
    /\ Len(ModuleCallbackList) = 1 /\ Len(ForEachCallbackList) = 1
    /\ \A r \in 3..5 : InvalidRegister(r)
    /\ hist[3].name = "A" /\ hist[4].name = NotAString
    /\ hist[5].name = EmptyName

\* the callback of a forEach call according to its documented shapes:
\* forEach(fn), forEach(filter, fn), forEach(names, fn), forEach(filter,
\* names, fn); the first function among the arguments, if any
HasCallback(c) == \E j \in 1..3 : hist[c].args[j].t = "function"

\* C21: forEach throws when, after argument-shape detection, fn is not a
\* function, and in that case creates no Subscription, no Pending Connection
\* and no claim, and invokes nothing.
C21_ForEachValidation ==
    \A c \in Calls :
        (hist[c].op = "forEach" /\ ~HasCallback(c))
        => /\ hist[c].threw # ""
           /\ ~hist[c].changed
           /\ EventsOf(c) = {}

\* A is registered and a subscription is active when forEach is called
\* with a filter and names but no function, and with names and a string
C21_Witness ==
    /\ Modules["A"] # Undef
    /\ Len(ForEachCallbackList) = 1
    /\ \E c \in Calls : \E d \in Calls :
          /\ hist[c].op = "forEach" /\ hist[d].op = "forEach"
          /\ hist[c].args = <<ArgStr("i"), ArgArr(<<"A">>), ArgUndef>>
          /\ hist[d].args = <<ArgArr(<<"A">>), ArgStr("i"), ArgUndef>>
          /\ hist[c].threw # "" /\ hist[d].threw # ""

\* the first store of name n, as an index of the log (0 when none)
FirstStore(n) ==
    IF Stores(n) = {} THEN 0
    ELSE CHOOSE s \in Stores(n) : \A s2 \in Stores(n) : s <= s2

\* the continuations completed by store s: those of calls made before the
\* register call of s, which requested the stored name and of whose names
\* it was the last to be stored, invoked within that register call
CompletedBy(s) ==
    {k \in Events :
        /\ log[k].ev = "cont"
        /\ log[k].op = log[s].op
        /\ log[k].id < log[s].op
        /\ log[s].name \in Range(hist[log[k].id].names)
        /\ FirstStore(log[s].name) = s
        /\ \A n \in Range(hist[log[k].id].names) :
              FirstStore(n) # 0 /\ FirstStore(n) <= s}

\* the notifications of store s: the fn invocations with its object and
\* name within its register call
NotificationsOf(s) ==
    {f \in Events :
        /\ log[f].ev = "fn"
        /\ log[f].op = log[s].op
        /\ log[f].name = log[s].name
        /\ log[f].args[1] = log[s].args[1]}

\* C22: within one register(M, o) call the Registry is updated first, then
\* every Pending Connection completed by M is resolved, and only then are
\* Subscriptions notified of (o, M): no Subscription is notified of (o, M)
\* before a continuation completed by M has run.
C22_RegisterOrder ==
    \A s \in Events :
        (log[s].ev = "reg" /\ IsModuleName(log[s].name))
        => /\ \A k \in CompletedBy(s) : s < k
           /\ \A f \in NotificationsOf(s) : s < f
           /\ \A k \in CompletedBy(s) : \A f \in NotificationsOf(s) : k < f

\* C23: for every register call and every Pending Connection whose remaining
\* set becomes empty because of it (the call deferred, and this register
\* supplies the last of its Module names), the continuation has been invoked
\* by the time that register call returns.
C23_ResolutionTiming ==
    \A c \in Calls :
        (/\ Coupling(c) /\ hist[c].threw = ""
         /\ hist[c].names # <<>>
         /\ \A n \in Range(hist[c].names) : IsModuleName(n) /\ Stores(n) # {}
         /\ LastSupplyOp(hist[c].names) > c)
        => \E k \in Conts(c) : log[k].op = LastSupplyOp(hist[c].names)

\* the requested names of call c that are not registered
Remaining(c) == SelectSeq(hist[c].names, LAMBDA n : Stores(n) = {})

\* C25: a Pending Connection leaves the Pending list only by being resolved:
\* every connect / forEach / group call that returned without invoking its
\* continuation, and whose continuation has not been invoked since, has its
\* entry in the Pending list, with remaining equal to its requested names
\* that are not yet registered.
C25_PendingOnlyLeavesResolved ==
    \A c \in Calls :
        (Coupling(c) /\ hist[c].threw = "" /\ Conts(c) = {})
        => /\ Cardinality(Pending(c)) = 1
           /\ \A k \in Pending(c) :
                 ModuleCallbackList[k].waitFor = Remaining(c)

\* C26: between public operations the Pending list contains no entry whose
\* remaining set is empty.
C26_ResolvedDiscarded ==
    \A k \in 1..Len(ModuleCallbackList) :
        ModuleCallbackList[k].waitFor # <<>>

\* C27: the callback of one connect / group / forEach call is never invoked
\* a second time.
C27_AtMostOnce ==
    \A c \in Calls : Cardinality(Conts(c)) <= 1

\* a group continuation registered its group while its own entry was in the
\* Pending list, the entry is still there, and a Module was registered by a
\* later call
C27_Witness ==
    \E g \in Calls : \E k \in Conts(g) : \E r \in Calls :
        /\ hist[g].op = "group"
        /\ log[k].op > g
        /\ Pending(g) # {}
        /\ r > log[k].op
        /\ hist[r].op = "register" /\ hist[r].threw = ""
        /\ IsModuleName(hist[r].name)

\* the end of the window of store s: the next store of the same name, or
\* the end of the log
WindowEnd(s) ==
    LET later == {s2 \in Stores(log[s].name) : s2 > s}
    IN  IF later = {} THEN Len(log) + 1
        ELSE CHOOSE s2 \in later : \A s3 \in later : s2 <= s3

\* the invocations of the Subscription of forEach call c for store s
Notified(c, s) ==
    {k \in Events :
        /\ log[k].ev = "notify" /\ log[k].id = c
        /\ log[k].name = log[s].name
        /\ log[k].args[1] = log[s].args[1]
        /\ s < k /\ k < WindowEnd(s)}

\* C24: on every register call the active Subscriptions are notified in the
\* order in which they were added to the Broadcast list.
C24_BroadcastOrder ==
    \A s \in Events : \A c \in Calls : \A d \in Calls :
        (/\ log[s].ev = "reg"
         /\ \E a \in Conts(c) : \E b \in Conts(d) : a < b /\ b < s)
        => \A k \in Notified(c, s) : \A m \in Notified(d, s) : k < m

\* two Subscriptions with the same filter, added by different calls, were
\* both notified of a later registration and both invoked fn
C24_Witness ==
    \E s \in Events : \E c \in Calls : \E d \in Calls :
        /\ log[s].ev = "reg"
        /\ \E a \in Conts(c) : \E b \in Conts(d) : a < b /\ b < s
        /\ Notified(c, s) # {} /\ Notified(d, s) # {}
        /\ \E f \in FnEvents(c) : f > s
        /\ \E f \in FnEvents(d) : f > s

\* seq is an initial segment of seq2
IsPrefix(seq, seq2) ==
    /\ Len(seq) <= Len(seq2)
    /\ \A k \in 1..Len(seq) : seq[k] = seq2[k]

\* every Subscription that was active before a register call that returned
\* normally was notified of each object the call stored
NotifiedOfLaterStores ==
    \A c \in Calls : \A a \in Conts(c) : \A s \in Events :
        (/\ hist[c].op = "forEach"
         /\ log[s].ev = "reg"
         /\ log[a].op < log[s].op
         /\ hist[log[s].op].threw = "")
        => \E k \in Notified(c, s) : log[k].op = log[s].op

\* C30: the Broadcast list only grows (no operation removes or reorders a
\* Subscription), and a Subscription, once active, is notified on every
\* later successful register call.
C30_SubscriptionsPermanent ==
    /\ [][IsPrefix(ForEachCallbackList, ForEachCallbackList')]_vars
    /\ []NotifiedOfLaterStores

\* a Subscription added by the first call was notified of registrations made
\* by two later calls, after a second Subscription was added
C30_Witness ==
    /\ Len(ForEachCallbackList) = 2
    /\ Conts(1) # {}
    /\ \E s \in Events : \E s2 \in Events :
          /\ log[s].ev = "reg" /\ log[s2].ev = "reg"
          /\ log[s].op < log[s2].op
          /\ Notified(1, s) # {} /\ Notified(1, s2) # {}
          /\ \E b \in Events : log[b].ev = "cont" /\ log[b].id # 1 /\ b < s2
                               /\ hist[log[b].id].op = "forEach"

\* Instance names: those with a lowercase initial
LowerCaseLetters == {"i"}
IsInstanceName(n) == n \in Names /\ FirstChar(n) \in LowerCaseLetters

\* the Instance sequence <<"arr", o_1, ..., o_k>> stored by the first k
\* events of the log under name n (<<"arr">> when none)
RECURSIVE SequenceAt(_, _)
SequenceAt(n, k) ==
    IF k = 0 THEN <<"arr">>
    ELSE IF log[k].ev = "reg" /\ log[k].name = n
         THEN Append(SequenceAt(n, k - 1), log[k].args[1][2])
         ELSE SequenceAt(n, k - 1)

\* C28: when an Instance name i has at least one registered object,
\* connect([..., i, ...], cb) treats i as present (it never waits for i)
\* and passes cb, at the position of i, the whole ordered sequence
\* registered under i.
C28_InstanceInConnect ==
    \A c \in Calls : \A j \in 1..Len(hist[c].names) :
        (/\ hist[c].op = "connect" /\ hist[c].threw = ""
         /\ IsInstanceName(hist[c].names[j])
         /\ StoredBefore(hist[c].names[j], c))
        => /\ \A p \in Pending(c) :
                 hist[c].names[j] \notin Range(ModuleCallbackList[p].waitFor)
           /\ \A k \in Conts(c) :
                 /\ log[k].args[j] = SequenceAt(hist[c].names[j], k - 1)
                 /\ Len(log[k].args[j]) >= 2

\* connect(['A', 'i'], cb) was called with two different objects registered
\* under i, and cb ran with both of them in one argument
C28_Witness ==
    \E c \in Calls : \E k \in Conts(c) :
        /\ hist[c].op = "connect" /\ hist[c].names = <<"A", "i">>
        /\ StoredBefore("i", c) /\ StoredBefore("A", c)
        /\ log[k].op = c
        /\ Len(log[k].args[2]) = 3
        /\ log[k].args[2][2] # log[k].args[2][3]

\* the step is a register call of an Instance name
InstanceRegisterStep ==
    /\ Len(hist') = Len(hist) + 1
    /\ hist'[Len(hist')].op = "register"
    /\ IsInstanceName(hist'[Len(hist')].name)

\* a call that deferred because one of its names was an Instance name
\* without registered objects has not had its continuation invoked
InstanceWaitNeverResolved ==
    \A c \in Calls :
        (/\ Coupling(c) /\ hist[c].threw = ""
         /\ \E n \in Range(hist[c].names) :
               IsInstanceName(n) /\ ~StoredBefore(n, c))
        => Conts(c) = {}

\* C29: register of an Instance name leaves the Pending list unchanged and
\* invokes no continuation, so a connect that deferred because one of its
\* names was an unregistered Instance name is never invoked, even after
\* instances of that name and all its other names are registered.
C29_InstanceNeverResolves ==
    /\ [][InstanceRegisterStep
            => /\ ModuleCallbackList' = ModuleCallbackList
               /\ \A k \in (Len(log) + 1)..Len(log') : log'[k].ev # "cont"]_vars
    /\ []InstanceWaitNeverResolved

\* connect(['A', 'i'], cb) deferred with neither name registered; later an
\* object was registered under i and A was registered
C29_Witness ==
    \E c \in Calls :
        /\ hist[c].op = "connect" /\ hist[c].names = <<"A", "i">>
        /\ ~StoredBefore("A", c) /\ ~StoredBefore("i", c)
        /\ Stores("A") # {} /\ Stores("i") # {}
        /\ Pending(c) # {}

\* the step is a connect call
ConnectStep ==
    /\ Len(hist') = Len(hist) + 1
    /\ hist'[Len(hist')].op = "connect"

\* the step invoked the callback of the call it made
InvokedInStep ==
    \E k \in (Len(log) + 1)..Len(log') :
        log'[k].ev = "cont" /\ log'[k].id = Len(hist')

\* C31: connect(names, cb) itself never adds, removes or changes a Registry
\* entry or a Subscription; apart from the effects of the cb it invokes, it
\* changes only the Claimed set and, when it defers, appends exactly one
\* entry to the Pending list: every other variable of the engine is left as
\* it was.
C31_ConnectFrame ==
    [][ConnectStep
         => /\ Modules' = Modules
            /\ keys' = keys
            /\ ForEachCallbackList' = ForEachCallbackList
            /\ claimed' = claimed
            /\ IF hist'[Len(hist')].threw # "" \/ InvokedInStep
               THEN ModuleCallbackList' = ModuleCallbackList
               ELSE /\ Len(ModuleCallbackList') = Len(ModuleCallbackList) + 1
                    /\ IsPrefix(ModuleCallbackList, ModuleCallbackList')
                    /\ ModuleCallbackList'[Len(ModuleCallbackList')].modules
                          = hist'[Len(hist')].names]_vars

\* C34: each Subscription is notified of registrations in the order in
\* which the entries were stored in the Registry, also when a register call
\* triggers a continuation that registers another name.
C34_NotificationOrder ==
    \A c \in Calls : \A a \in Conts(c) : \A s \in Events : \A s2 \in Events :
        (/\ hist[c].op = "forEach"
         /\ log[s].ev = "reg" /\ log[s2].ev = "reg"
         /\ a < s /\ s < s2)
        => \A k \in Notified(c, s) : \A m \in Notified(c, s2) : k < m

\* C35: after register(M, o) succeeds for a Module name M with any defined
\* o, M counts as registered: a second register(M, ...) throws, and a
\* connect whose names were all registered by successful calls invokes cb
\* synchronously.
C35_PresenceIndependentOfValue ==
    \A r \in Calls :
        (/\ hist[r].op = "register" /\ hist[r].threw = ""
         /\ hist[r].name \in Names /\ FirstChar(hist[r].name) \in UpperCaseLetters)
        => /\ \A q \in Calls :
                 (q > r /\ hist[q].op = "register"
                        /\ hist[q].name = hist[r].name)
                 => hist[q].threw = "AlreadyExists"
           /\ \A c \in Calls :
                 (/\ c > r /\ hist[c].op = "connect"
                  /\ hist[r].name \in Range(hist[c].names)
                  /\ \A n \in Range(hist[c].names) :
                        \E p \in Calls : /\ p < c /\ hist[p].op = "register"
                                         /\ hist[p].name = n
                                         /\ hist[p].threw = "")
                 => \E k \in Conts(c) : log[k].op = c

\* C36: every name that group accepts as a Module name is stored by
\* register as a singleton Module entry and never appended to an Instance
\* sequence: the two operations classify the name alike.
C36_NameKindAgreement ==
    \A g \in Calls :
        (hist[g].op = "group" /\ hist[g].threw = "")
        => /\ ~isInstance(hist[g].name)
           /\ ~IsArray(Modules[hist[g].name])

\* C37: connect(names, cb) whose names list contains the same unregistered
\* Module name more than once has invoked cb exactly once when its names are
\* registered, with the Module at each position.
C37_RepeatedNames ==
    \A c \in Calls :
        (/\ hist[c].op = "connect" /\ hist[c].threw = ""
         /\ \E j \in 1..Len(hist[c].names) : \E k \in 1..Len(hist[c].names) :
               /\ j < k /\ hist[c].names[j] = hist[c].names[k]
               /\ ~StoredBefore(hist[c].names[j], c)
         /\ \A n \in Range(hist[c].names) :
               FirstChar(n) \in UpperCaseLetters /\ Stores(n) # {})
        => /\ Cardinality(Conts(c)) = 1
           /\ \A k \in Conts(c) : log[k].args = ValuesAt(hist[c].names, k - 1)

\* the callback of forEach call c: the first function among its arguments
FnOf(c) ==
    hist[c].args[CHOOSE j \in 1..3 :
                    /\ hist[c].args[j].t = "function"
                    /\ \A m \in 1..(j - 1) : hist[c].args[m].t # "function"]

\* forEach call c passed a callback that registers, in the given mode, a new
\* object under the name its Subscription matches
Reentrant(c, mode) ==
    /\ hist[c].op = "forEach" /\ HasCallback(c)
    /\ FnOf(c).a # <<>>
    /\ FnOf(c).a[2] = mode
    /\ hist[c].filter.t = "string"
    /\ FnOf(c).s = hist[c].filter.s

\* C32: a Subscription whose fn registers a new object under a name the
\* Subscription matches makes the triggering call never return: every call
\* in which the Subscription is notified of an entry of that name nests
\* register calls beyond the depth bound and ends in the stack's RangeError.
C32_UnboundedCascade ==
    \A c \in Calls : \A r \in Calls :
        (/\ Reentrant(c, "always")
         /\ \E k \in EventsOf(r) :
               /\ log[k].ev = "notify" /\ log[k].id = c
               /\ log[k].name = hist[c].filter.s)
        => /\ hist[r].threw = "RangeError"
           /\ Cardinality({k \in EventsOf(r) : log[k].ev = "reg"}) >= MaxDepth

\* the cascade was started by a register call made after the forEach call,
\* and by the replay of a forEach call made after a register call
C32_Witness ==
    /\ \E c \in Calls : \E r \in Calls :
          /\ Reentrant(c, "always") /\ c < r
          /\ hist[r].op = "register" /\ hist[r].threw = "RangeError"
    /\ \E c \in Calls :
          /\ Reentrant(c, "always") /\ StoredBefore("i", c)
          /\ hist[c].threw = "RangeError"

\* C33: if fn, while being invoked during the replay of a forEach
\* subscription, itself calls register, the subscription still receives
\* every registry entry exactly once: in runs without a stack overflow, fn
\* has been invoked for each object as often as the object was stored under
\* the matching name.
C33_ExactlyOnceReentrant ==
    \A c \in Calls :
        (/\ Reentrant(c, "once")
         /\ Conts(c) # {}
         /\ \A r \in Calls : hist[r].threw # "RangeError")
        => \A o \in Objects :
              Cardinality(Deliveries(c, hist[c].filter.s, Obj(o))) =
                  Cardinality({s \in Stores(hist[c].filter.s) :
                                  log[s].args[1] = Obj(o)})

\* two instances were registered when forEach was called; fn registered a
\* third one during the replay of the first, and another instance was
\* registered by a later call
C33_Witness ==
    \E c \in Calls : \E s \in Stores("i") : \E r \in Calls :
        /\ Reentrant(c, "once")
        /\ Cardinality({k \in Stores("i") : log[k].op < c}) = 2
        /\ log[s].op = c
        /\ \E f \in FnEvents(c) : \E f2 \in FnEvents(c) :
              f < s /\ s < f2 /\ log[f2].op = c
                    /\ log[f2].args[1] # log[s].args[1]
        /\ r > c /\ hist[r].op = "register" /\ hist[r].threw = ""
        /\ \A q \in Calls : hist[q].threw # "RangeError"

\* the callback invocations recorded in a log
Invocations(l) == SelectSeq(l, LAMBDA x : x.ev = "cont")

\* the run consists of register calls and coupling calls, and no name is
\* requested by more than one coupling call
DisjointCouplings ==
    /\ \A c \in Calls : hist[c].op \in {"register", "connect"}
    /\ \A c \in Calls : \A d \in Calls :
          (c < d /\ hist[c].op = "connect" /\ hist[d].op = "connect")
          => Range(hist[c].names) \cap Range(hist[d].names) = {}

\* the two engines invoked the same callbacks with the same arguments in the
\* same order and hold the same Registry and Pending list
SameOutcome ==
    /\ Invocations(earlier.log) = Invocations(log)
    /\ earlier.Modules = Modules
    /\ earlier.ModuleCallbackList = ModuleCallbackList

\* every object passed to register is of type 'object'
ObjectsOnly ==
    \A r \in Calls :
        hist[r].op = "register" => TypeOfObject(hist[r].obj) = "object"

\* C38 as stated: for every sequence of register calls and coupling calls in
\* which no name is requested by more than one coupling call, couple and
\* connect invoke the same callbacks with the same arguments in the same
\* order and leave the same Registry and Pending list.
C38_ConnectRefinesCouple ==
    DisjointCouplings => SameOutcome

\* C38 amended: the same, for sequences in which every object passed to
\* register is of type 'object' (an object or null).
C38_ConnectRefinesCoupleForObjects ==
    (DisjointCouplings /\ ObjectsOnly) => SameOutcome

\* both engines deferred connect(['A']) while A held null, invoked the
\* callback when A was registered again, and invoked that of
\* connect(['B', 'i']) at call time
C38_Witness ==
    /\ DisjointCouplings /\ ObjectsOnly
    /\ \E r \in Calls : hist[r].op = "register" /\ hist[r].obj = Null
                        /\ hist[r].threw = ""
    /\ \E c \in Calls : \E k \in Conts(c) :
          hist[c].names = <<"A">> /\ log[k].op > c
    /\ \E c \in Calls : \E k \in Conts(c) :
          hist[c].names = <<"B", "i">> /\ log[k].op = c
    /\ Len(Invocations(earlier.log)) = 2

====
